---------------------------- MODULE Spec2Model ----------------------------
(***************************************************************************)
(* RegimAI-Gateway: the Express gateway (scripts/gateway-server.js), the   *)
(* static-site builder (SiteBuilder) and the browser script                *)
(* (assets/js/cognitive-layer.js), as three independently run programs.    *)
(***************************************************************************)
EXTENDS Integers, Sequences, FiniteSets, Bags, TLC

VARIABLES
    phase,          \* gateway: "constructed" | "initialized" | "exit(1)"
    config,         \* gateway: this.config: "null" | "loaded" | "incomplete"
    stack,          \* gateway: the Express layer stack of this.app, in registration order
    listening,      \* gateway: app.listen was called
    requestStats,   \* gateway: this.requestStats {total, byService, errors}
    inflight,       \* gateway: responses sent whose 'finish' event has not fired yet
    last,           \* gateway: <<>> or <<the latest request and what the gateway did with it>>
    called,         \* history: <<>> or <<the latest call of a handler method by a caller other than Express>>
    answers,        \* history: per placeholder handler, the requests it answered and its answers
    received,       \* history: HTTP requests the listening server has received
    served,         \* history: per service, responses that were the service's success response
    finishedErr,    \* history: finished responses with status >= 400
    disk,           \* the files of the repository directory: path -> what the file holds
    buildStatus,    \* builder: "idle" | "running" | "succeeded" | "failed"
    buildPc,        \* builder: the index in BuildOrder of the step build() runs next
    buildLog,       \* builder: the steps of this build() that have finished, in order
    rendered,       \* builder: <<>> or <<the latest call of processTemplate and its result>>
    localStorage,   \* browser: key -> the value stored under it
    document,       \* browser: the page loaded and what the script did to its DOM
    window          \* browser: window.cognitiveLayer and the search box's listener

gwVars == <<phase, config, stack, listening, requestStats, inflight, last,
            called, answers, received, served, finishedErr>>

builderVars == <<buildStatus, buildPc, buildLog, rendered>>

browserVars == <<localStorage, document, window>>

vars == <<gwVars, disk, builderVars, browserVars>>

(***************************************************************************)
(* Bounds of the model.                                                    *)
(***************************************************************************)
MaxRequests == 2
MaxLoads == 3

(***************************************************************************)
(* JavaScript values that reach the API-key check: undefined, a string     *)
(* (a sequence of characters) or an array (a repeated query parameter).    *)
(***************************************************************************)
Undefined == [t |-> "undefined", s |-> <<>>]
Str(s) == [t |-> "string", s |-> s]
Arr(s) == [t |-> "array", s |-> s]

Pad(n) == [i \in 1..n |-> "0"]

KeyPrefix == <<"r", "e", "g", "i", "m", "a", "_">>
MinKeyLen == 20

\* String.prototype.startsWith
startsWith(s, p) == Len(s) >= Len(p) /\ SubSeq(s, 1, Len(p)) = p

\* JavaScript truthiness of a header or query value
Truthy(v) == \/ v.t = "array"
             \/ v.t = "string" /\ Len(v.s) > 0

\* a || b
OrElse(a, b) == IF Truthy(a) THEN a ELSE b


(***************************************************************************)
(* Requests.  A path is its sequence of segments.                          *)
(***************************************************************************)
ValidKey    == Str(KeyPrefix \o Pad(MinKeyLen - Len(KeyPrefix) + 1))  \* 21 characters
BoundaryKey == Str(KeyPrefix \o Pad(MinKeyLen - Len(KeyPrefix)))      \* 20 characters
NoPrefixKey == Str(Pad(MinKeyLen + 1))                                \* 21 characters, no prefix
EmptyKey    == Str(<<>>)
ArrayKey    == Arr(<<"a", "b">>)                       \* ?apiKey=a&apiKey=b

Req(m, p, h, q, b) == [method |-> m, path |-> p, hkey |-> h, qkey |-> q, body |-> b]

OpenAIPath   == <<"v1", "openai", "chat", "completions">>
AzurePath    == <<"v1", "azure-openai", "chat", "completions">>
SkincarePath == <<"agents", "skincare-consultant">>
ImagePath    == <<"tools", "image-analysis">>

\* <<X-API-Key header, apiKey query parameter>>
KeyPairs ==
    { <<Undefined, Undefined>>, <<EmptyKey, Undefined>>, <<ValidKey, Undefined>>,
      <<Undefined, ValidKey>>, <<EmptyKey, BoundaryKey>>, <<Undefined, NoPrefixKey>>,
      <<Undefined, ArrayKey>>, <<ValidKey, ArrayKey>> }

\* requests that probe the API-key check of the protected prefixes
KeyProbes ==
    { Req(t[1], t[2], k[1], k[2], "object") :
        t \in { <<"POST", OpenAIPath>>, <<"GET", <<"data", "missing">>>> },
        k \in KeyPairs }

\* requests with a valid key and every kind of body
BodyProbes ==
    { Req("POST", p, ValidKey, Undefined, b) :
        p \in {OpenAIPath, SkincarePath, ImagePath},
        b \in {"none", "object", "malformed"} }

\* requests without a key
PublicProbes ==
    { Req(t[1], t[2], Undefined, Undefined, "none") :
        t \in { <<"GET", <<"gateway", "config">>>>, <<"GET", <<"gateway", "info">>>>,
                <<"GET", <<"metrics">>>>, <<"GET", <<"cognitive", "atomspace">>>>,
                <<"GET", <<"nothing">>>>, <<"OPTIONS", ImagePath>>,
                <<"POST", ImagePath>>,
                <<"POST", AzurePath>> } }

Requests == KeyProbes \cup BodyProbes \cup PublicProbes

(***************************************************************************)
(* The context of one request on its way through the layer stack: req,     *)
(* req.user, res, and this.requestStats as the layers see and change it.   *)
(***************************************************************************)
NoUser == [set |-> FALSE, apiKey |-> Undefined, role |-> ""]

NewCtx(req, stats) ==
    [req      |-> req,
     user     |-> NoUser,         \* req.user
     parsed   |-> "undefined",    \* req.body: "undefined" | "object"
     status   |-> 0,              \* res.statusCode once a response is sent
     body     |-> "",             \* what the response body is
     snapshot |-> <<>>,           \* the requestStats a response body reports
     stats    |-> stats,          \* this.requestStats
     listener |-> FALSE,          \* res.on('finish', ...) registered
     auth     |-> "not-run",      \* outcome of authenticateRequest
     apiKey   |-> Undefined,      \* the apiKey authenticateRequest read
     nextCalls |-> 0,             \* times authenticateRequest called next()
     authStatus |-> 0,            \* status of the response authenticateRequest sent, if any
     handler  |-> "",             \* the route handler that ran
     signal   |-> "next",         \* "next" | "end" | "error"
     errStatus |-> 0]

json(ctx, status, body) ==
    [ctx EXCEPT !.status = status, !.body = body, !.signal = "end"]

next(ctx) == [ctx EXCEPT !.signal = "next"]

throw(ctx, status) == [ctx EXCEPT !.signal = "error", !.errStatus = status]

(***************************************************************************)
(* validateApiKey: apiKey.startsWith('regima_') && apiKey.length > 20.     *)
(* A value that is not a string has no startsWith: the call throws.        *)
(***************************************************************************)
validateApiKey_PrefixOnly(apiKey) ==
    IF apiKey.t # "string"
    THEN [threw |-> TRUE, value |-> FALSE]
    ELSE [threw |-> FALSE, value |-> startsWith(apiKey.s, KeyPrefix)]

validateApiKey(apiKey) ==
    IF apiKey.t # "string"
    THEN [threw |-> TRUE, value |-> FALSE]
    ELSE [threw |-> FALSE,
          value |-> startsWith(apiKey.s, KeyPrefix) /\ Len(apiKey.s) > MinKeyLen]

authenticateRequest(ctx) ==
    LET apiKey == OrElse(ctx.req.hkey, ctx.req.qkey)
        c      == [ctx EXCEPT !.apiKey = apiKey]
    IN  IF ~Truthy(apiKey)
        THEN json([c EXCEPT !.auth = "missing", !.authStatus = 401], 401,
                  "Authentication required")
        ELSE LET v == validateApiKey(apiKey)
             IN  IF v.threw
                 THEN throw([c EXCEPT !.auth = "threw"], 500)
                 ELSE IF ~v.value
                 THEN json([c EXCEPT !.auth = "invalid", !.authStatus = 403], 403,
                           "Invalid API key")
                 ELSE next([c EXCEPT !.auth = "accepted",
                                     !.user = [set |-> TRUE, apiKey |-> apiKey,
                                               role |-> "user"],
                                     !.nextCalls = @ + 1])


(***************************************************************************)
(* updateServiceStats and the three handlers that call it.  req.body is    *)
(* read inside try; reading a property of undefined throws and the catch   *)
(* answers 500.                                                            *)
(***************************************************************************)
Services == {"openai", "skincare-consultant", "image-analysis"}

updateServiceStats_Reset(byService, serviceName) ==
    (serviceName :> 1) @@ byService

updateServiceStats(byService, serviceName) ==
    LET b == IF serviceName \notin DOMAIN byService \/ byService[serviceName] = 0
             THEN (serviceName :> 0) @@ byService
             ELSE byService
    IN  [b EXCEPT ![serviceName] = @ + 1]

ServiceHandler_CountsBeforeThrow(ctx, name, serviceName, body) ==
    LET c == [ctx EXCEPT !.handler = name,
                         !.stats.byService = updateServiceStats(@, serviceName)]
    IN  IF c.parsed = "undefined"
        THEN json(c, 500, "error")
        ELSE json(c, 200, body)

ServiceHandler(ctx, name, serviceName, body) ==
    LET c == [ctx EXCEPT !.handler = name]
    IN  IF c.parsed = "undefined"
        THEN json(c, 500, "error")
        ELSE json([c EXCEPT !.stats.byService = updateServiceStats(@, serviceName)],
                  200, body)

handleOpenAIChat(ctx) ==
    ServiceHandler(ctx, "handleOpenAIChat", "openai", "chat.completion")

handleSkincareConsultant(ctx) ==
    ServiceHandler(ctx, "handleSkincareConsultant", "skincare-consultant", "consultation")

handleImageAnalysis(ctx) ==
    ServiceHandler(ctx, "handleImageAnalysis", "image-analysis", "analysis")

\* the service whose success response a body is
ServiceOfBody ==
    [b \in {"chat.completion", "consultation", "analysis"} |->
        CASE b = "chat.completion" -> "openai"
          [] b = "consultation"    -> "skincare-consultant"
          [] b = "analysis"        -> "image-analysis"]

\* the ten placeholder handlers: res.json({ message: '... - implementation pending' })
PlaceholderMessage ==
    [handleAzureOpenAIChat     |-> "Azure OpenAI endpoint - implementation pending",
     handleCognitiveAnalysis   |-> "Cognitive analysis endpoint - implementation pending",
     handleDermatologyAssistant |-> "Dermatology assistant endpoint - implementation pending",
     handleProductAdvisor      |-> "Product advisor endpoint - implementation pending",
     handleVectorSearch        |-> "Vector search endpoint - implementation pending",
     handleKnowledgeQuery      |-> "Knowledge query endpoint - implementation pending",
     handleRoutineGenerator    |-> "Routine generator endpoint - implementation pending",
     handleAtomSpaceQuery      |-> "AtomSpace query endpoint - implementation pending",
     handlePLNReasoning        |-> "PLN reasoning endpoint - implementation pending",
     handlePatternMining       |-> "Pattern mining endpoint - implementation pending"]

Placeholder_EchoesBody(ctx, name) ==
    json([ctx EXCEPT !.handler = name], 200,
         IF ctx.parsed = "undefined" THEN "undefined" ELSE PlaceholderMessage[name])

Placeholder(ctx, name) ==
    json([ctx EXCEPT !.handler = name], 200, PlaceholderMessage[name])

\* the inline route handlers: res.json of a value computed from this.config,
\* and for /gateway/info and /metrics from this.requestStats
InlineBody ==
    [gatewayInfo |-> "gateway.info", health |-> "health", gatewayConfig |-> "config",
     services |-> "services", capabilities |-> "agents", dataServices |-> "data-services",
     toolsAvailable |-> "tools", cognitiveStatus |-> "cognitive.status",
     metrics |-> "metrics", policies |-> "policies", docs |-> "docs"]

getServiceMetrics(stats) ==
    [totalRequests     |-> stats.total,
     requestsByService |-> stats.byService,
     \* errors / total, as numerator and denominator; 0 when total is 0
     errorRate         |-> IF stats.total > 0 THEN <<stats.errors, stats.total>>
                                              ELSE <<0, 1>>]

Inline(ctx, name) ==
    LET c == [ctx EXCEPT !.handler = name]
    IN  IF name \in {"gatewayInfo", "metrics"}
        THEN json([c EXCEPT !.snapshot = <<c.stats>>], 200, InlineBody[name])
        ELSE json(c, 200, InlineBody[name])

(***************************************************************************)
(* setupMiddleware: the layers in front of the routes.                     *)
(***************************************************************************)
helmet(ctx) == next(ctx)

\* cors answers a preflight itself (204) and passes every other request on
cors(ctx) ==
    IF ctx.req.method = "OPTIONS" THEN json(ctx, 204, "") ELSE next(ctx)

\* express.json: a body that does not parse is an error of status 400;
\* without a body req.body is {}
expressJson(ctx) ==
    IF ctx.req.body = "malformed"
    THEN throw(ctx, 400)
    ELSE next([ctx EXCEPT !.parsed = "object"])

urlencoded(ctx) == next(ctx)

\* request logging and statistics
requestLogger(ctx) ==
    next([ctx EXCEPT !.stats.total = @ + 1, !.listener = TRUE])


Use(path, fn) == [kind |-> "use", method |-> "*", path |-> path, fn |-> fn]
Route(method, path, fn) == [kind |-> "route", method |-> method, path |-> path, fn |-> fn]

\* the prefixes app.use(prefix + '/*', authenticateRequest) is registered for
ProtectedPrefixes_NoTools == <<"v1", "agents", "data">>

ProtectedPrefixes == <<"v1", "agents", "data", "tools">>

setupMiddleware ==
    <<Use(<<>>, "helmet"), Use(<<>>, "cors"), Use(<<>>, "expressJson"),
      Use(<<>>, "urlencoded"), Use(<<>>, "requestLogger")>>
    \o [i \in 1..Len(ProtectedPrefixes) |->
            Use(<<ProtectedPrefixes[i]>>, "authenticateRequest")]

setupGatewayRoutes ==
    <<Route("GET", <<"gateway", "info">>, "gatewayInfo"),
      Route("GET", <<"health">>, "health"),
      Route("GET", <<"gateway", "config">>, "gatewayConfig")>>

setupServiceRoutes ==
    <<Route("POST", OpenAIPath, "handleOpenAIChat"),
      Route("POST", AzurePath, "handleAzureOpenAIChat"),
      Route("POST", <<"v1", "cognitive", "analyze">>, "handleCognitiveAnalysis"),
      Route("GET", <<"v1", "services">>, "services")>>

setupAgentRoutes ==
    <<Route("POST", SkincarePath, "handleSkincareConsultant"),
      Route("POST", <<"agents", "dermatology-assistant">>, "handleDermatologyAssistant"),
      Route("POST", <<"agents", "product-advisor">>, "handleProductAdvisor"),
      Route("GET", <<"agents", "capabilities">>, "capabilities")>>

setupDataServiceRoutes ==
    <<Route("GET", <<"data", "vectors", "search">>, "handleVectorSearch"),
      Route("POST", <<"data", "knowledge", "query">>, "handleKnowledgeQuery"),
      Route("GET", <<"data", "services">>, "dataServices")>>

setupToolRoutes ==
    <<Route("POST", ImagePath, "handleImageAnalysis"),
      Route("POST", <<"tools", "routine-generator">>, "handleRoutineGenerator"),
      Route("GET", <<"tools", "available">>, "toolsAvailable")>>

setupCognitiveIntegration ==
    <<Route("GET", <<"cognitive", "atomspace">>, "handleAtomSpaceQuery"),
      Route("POST", <<"cognitive", "reasoning">>, "handlePLNReasoning"),
      Route("GET", <<"cognitive", "patterns">>, "handlePatternMining"),
      Route("GET", <<"cognitive", "status">>, "cognitiveStatus")>>

setupMonitoring ==
    <<Route("GET", <<"metrics">>, "metrics"), Route("GET", <<"policies">>, "policies")>>

setupDocumentation == <<Route("GET", <<"docs">>, "docs")>>

(***************************************************************************)
(* Express: a request walks the stack in registration order.  A use-layer  *)
(* matches by path prefix (prefix + '/*'), a route by method and path.  A  *)
(* layer ends the walk by responding; an error goes to the default error   *)
(* handler; a request no layer answers gets 404.                           *)
(***************************************************************************)
Match(layer, req) ==
    IF layer.kind = "use"
    THEN /\ Len(req.path) > Len(layer.path)
         /\ SubSeq(req.path, 1, Len(layer.path)) = layer.path
    ELSE layer.method = req.method /\ layer.path = req.path

Call(fn, ctx) ==
    CASE fn = "helmet"                   -> helmet(ctx)
      [] fn = "cors"                     -> cors(ctx)
      [] fn = "expressJson"              -> expressJson(ctx)
      [] fn = "urlencoded"               -> urlencoded(ctx)
      [] fn = "requestLogger"            -> requestLogger(ctx)
      [] fn = "authenticateRequest"      -> authenticateRequest(ctx)
      [] fn = "handleOpenAIChat"         -> handleOpenAIChat(ctx)
      [] fn = "handleSkincareConsultant" -> handleSkincareConsultant(ctx)
      [] fn = "handleImageAnalysis"      -> handleImageAnalysis(ctx)
      [] fn \in DOMAIN PlaceholderMessage -> Placeholder(ctx, fn)
      [] fn \in DOMAIN InlineBody        -> Inline(ctx, fn)

RECURSIVE Handle(_, _, _)
Handle(layers, i, ctx) ==
    IF i > Len(layers)
    THEN json(ctx, 404, "Cannot " \o ctx.req.method)
    ELSE IF ~Match(layers[i], ctx.req)
    THEN Handle(layers, i + 1, ctx)
    ELSE LET c == Call(layers[i].fn, ctx)
         IN  CASE c.signal = "next"  -> Handle(layers, i + 1, c)
               [] c.signal = "end"   -> c
               [] c.signal = "error" -> json(c, c.errStatus, "error")

(***************************************************************************)
(* The file system.  A path is its sequence of names below the directory   *)
(* regima.site; disk maps each path that exists to "dir" or to what the    *)
(* file holds.                                                             *)
(***************************************************************************)
IsPrefix(p, q) == Len(p) <= Len(q) /\ SubSeq(q, 1, Len(p)) = p

Parent(p) == SubSeq(p, 1, Len(p) - 1)

\* fs.remove: the path and everything below it; no error when it is missing
remove(d, path) ==
    [p \in { q \in DOMAIN d : ~IsPrefix(path, q) } |-> d[p]]

\* fs.ensureDir: fails when the path or a directory above it is a file
ensureDir(d, path) ==
    LET above == { SubSeq(path, 1, k) : k \in 0..Len(path) }
    IN  IF \E a \in above : a \in DOMAIN d /\ d[a] # "dir"
        THEN [ok |-> FALSE, disk |-> d]
        ELSE [ok |-> TRUE, disk |-> [a \in above |-> "dir"] @@ d]

\* fs.writeFile: fails when the path is a directory or its parent is none
writeFile(d, path, data) ==
    IF \/ path \in DOMAIN d /\ d[path] = "dir"
       \/ Parent(path) \notin DOMAIN d
       \/ d[Parent(path)] # "dir"
    THEN [ok |-> FALSE, disk |-> d]
    ELSE [ok |-> TRUE, disk |-> (path :> data) @@ d]

\* fs.copy: the source and everything below it, to the same place below dest;
\* fails when the source is missing
copy(d, src, dest) ==
    LET below     == { q \in DOMAIN d : IsPrefix(src, q) }
        Target(q) == dest \o SubSeq(q, Len(src) + 1, Len(q))
        targets   == { Target(q) : q \in below }
    IN  IF src \notin DOMAIN d
        THEN [ok |-> FALSE, disk |-> d]
        ELSE [ok |-> TRUE,
              disk |-> [t \in targets |-> d[CHOOSE q \in below : Target(q) = t]] @@ d]

\* fs.readdir: the names directly below the directory, in name order as the
\* listing gives them; fails when the directory is missing
readdir(d, dir, listing) ==
    SelectSeq(listing, LAMBDA n : (dir \o <<n.base \o n.ext>>) \in DOMAIN d)

\* fs.readJson of the gateway configuration: the file exists and parses.  A
\* file "json" holds the whole configuration, a file "incomplete" is JSON
\* without the key gateway.
readJson(d, path) == path \in DOMAIN d /\ d[path] \in {"json", "incomplete"}

\* this.configPath of the gateway
configPath == <<"config", "gateway.json">>

\* this.config.gateway.name can be read once fs.readJson(this.configPath) resolved
hasGatewayName(d) == readJson(d, configPath) /\ d[configPath] = "json"

(***************************************************************************)
(* The gateway process.                                                    *)
(***************************************************************************)
GatewayInit ==
    /\ phase = "constructed"
    /\ config = "null"
    /\ stack = <<>>
    /\ listening = FALSE
    /\ requestStats = [total |-> 0, byService |-> <<>>, errors |-> 0]
    /\ inflight = EmptyBag
    /\ last = <<>>
    /\ called = <<>>
    /\ answers = [h \in DOMAIN PlaceholderMessage |-> {}]
    /\ received = 0
    /\ served = [s \in Services |-> 0]
    /\ finishedErr = 0

\* start(): this.app.listen(this.port)
Start ==
    /\ phase # "exit(1)"
    /\ ~listening
    /\ listening' = TRUE
    /\ UNCHANGED <<phase, config, stack, requestStats, inflight, last, called,
                   answers, received, served, finishedErr>>
    /\ UNCHANGED <<disk, builderVars, browserVars>>

InitializeGateway_RoutesFirst ==
    /\ phase = "constructed"
    /\ hasGatewayName(disk)
    /\ config' = "loaded"
    /\ stack' = setupGatewayRoutes \o setupServiceRoutes \o setupAgentRoutes
                  \o setupDataServiceRoutes \o setupToolRoutes
                  \o setupCognitiveIntegration \o setupMonitoring
                  \o setupDocumentation \o setupMiddleware
    /\ phase' = "initialized"
    /\ UNCHANGED <<listening, requestStats, inflight, last, called, answers,
                   received, served, finishedErr>>
    /\ UNCHANGED <<disk, builderVars, browserVars>>

\* initializeGateway after fs.readJson resolved with a configuration that has
\* gateway.name: every setup call, in order, without an await in between
InitializeGateway ==
    /\ phase = "constructed"
    /\ hasGatewayName(disk)
    /\ config' = "loaded"
    /\ stack' = setupMiddleware \o setupGatewayRoutes \o setupServiceRoutes
                  \o setupAgentRoutes \o setupDataServiceRoutes \o setupToolRoutes
                  \o setupCognitiveIntegration \o setupMonitoring \o setupDocumentation
    /\ phase' = "initialized"
    /\ UNCHANGED <<listening, requestStats, inflight, last, called, answers,
                   received, served, finishedErr>>
    /\ UNCHANGED <<disk, builderVars, browserVars>>

\* initializeGateway when fs.readJson rejected, or when it resolved and reading
\* this.config.gateway.name threw before the first setup call: the catch calls
\* process.exit(1)
InitializeFailed ==
    /\ phase = "constructed"
    /\ ~hasGatewayName(disk)
    /\ config' = IF readJson(disk, configPath) THEN "incomplete" ELSE config
    /\ phase' = "exit(1)"
    /\ listening' = FALSE
    /\ inflight' = EmptyBag
    /\ UNCHANGED <<stack, requestStats, last, called, answers, received, served,
                   finishedErr>>
    /\ UNCHANGED <<disk, builderVars, browserVars>>

\* the number of calls of a handler method made by callers other than Express
Calls == IF called = <<>> THEN 0 ELSE called[1].n

\* what a handler's response adds to the history of the placeholder handlers
Answered(c, reqBody) ==
    IF c.handler \in DOMAIN PlaceholderMessage
    THEN [answers EXCEPT ![c.handler] =
              @ \cup {[reqBody |-> reqBody, total |-> c.stats.total,
                       status |-> c.status, message |-> c.body]}]
    ELSE answers

\* what a handler's response adds to the successes of the three services
Served(c) ==
    IF c.status = 200 /\ c.body \in DOMAIN ServiceOfBody
    THEN [served EXCEPT ![ServiceOfBody[c.body]] = @ + 1]
    ELSE served

\* one HTTP request, from its arrival to the response being handed to the socket
Request(req) ==
    /\ listening
    /\ phase # "exit(1)"
    /\ received + Calls < MaxRequests
    /\ \E c \in {Handle(stack, 1, NewCtx(req, requestStats))} :
           /\ requestStats' = c.stats
           /\ inflight' = inflight (+) SetToBag({[status |-> c.status,
                                                  listener |-> c.listener]})
           /\ last' = <<[req |-> req, user |-> c.user, status |-> c.status,
                         body |-> c.body, snapshot |-> c.snapshot,
                         listener |-> c.listener, auth |-> c.auth,
                         apiKey |-> c.apiKey, nextCalls |-> c.nextCalls,
                         authStatus |-> c.authStatus,
                         handler |-> c.handler]>>
           /\ served' = Served(c)
           /\ answers' = Answered(c, req.body)
    /\ received' = received + 1
    /\ UNCHANGED <<phase, config, stack, listening, called, finishedErr>>
    /\ UNCHANGED <<disk, builderVars, browserVars>>

\* a response's 'finish' event: the listener of the statistics middleware, if
\* it was registered for this response
Finish(r) ==
    /\ phase # "exit(1)"
    /\ BagIn(r, inflight)
    /\ inflight' = inflight (-) SetToBag({r})
    /\ requestStats' = IF r.listener /\ r.status >= 400
                       THEN [requestStats EXCEPT !.errors = @ + 1]
                       ELSE requestStats
    /\ finishedErr' = IF r.status >= 400 THEN finishedErr + 1 ELSE finishedErr
    /\ UNCHANGED <<phase, config, stack, listening, last, called, answers,
                   received, served>>
    /\ UNCHANGED <<disk, builderVars, browserVars>>

\* the handler methods of the exported class RegimAIGateway that read nothing
\* of this.config
HandlerMethods ==
    {"handleOpenAIChat", "handleSkincareConsultant", "handleImageAnalysis"}
    \cup DOMAIN PlaceholderMessage

\* a caller other than Express calls gateway.fn(req, res) with a req of its
\* own, whose body is undefined or an object, and a res of its own
HandlerCall(fn, reqBody) ==
    /\ phase # "exit(1)"
    /\ received + Calls < MaxRequests
    /\ \E c \in {Call(fn, [NewCtx(Req("POST", <<>>, Undefined, Undefined, "none"),
                                    requestStats) EXCEPT !.parsed = reqBody])} :
           /\ requestStats' = c.stats
           /\ called' = <<[n |-> Calls + 1, fn |-> fn, reqBody |-> reqBody,
                           status |-> c.status, body |-> c.body, at |-> received]>>
           /\ served' = Served(c)
           /\ answers' = Answered(c, reqBody)
    /\ UNCHANGED <<phase, config, stack, listening, inflight, last, received,
                   finishedErr>>
    /\ UNCHANGED <<disk, builderVars, browserVars>>

\* <<handler method, req.body>> of the calls made by other callers
HandlerCalls ==
    { <<fn, "undefined">> : fn \in {"handleOpenAIChat", "handleSkincareConsultant",
                                    "handleImageAnalysis", "handleAzureOpenAIChat"} }
    \cup { <<"handleSkincareConsultant", "object">> }

GatewayStep(requests, calls) ==
    \/ Start
    \/ InitializeGateway
    \/ InitializeFailed
    \/ \E req \in requests : Request(req)
    \/ \E r \in BagToSet(inflight) : Finish(r)
    \/ \E call \in calls : HandlerCall(call[1], call[2])

GatewayNext == GatewayStep(Requests, HandlerCalls)

(***************************************************************************)
(* SiteBuilder.                                                            *)
(***************************************************************************)
publicDir_RepositoryRoot == <<>>

publicDir    == <<"public">>
contentDir   == <<"content">>
templatesDir == <<"templates">>
assetsDir    == <<"assets">>

\* a file name of content/pages, as its base and its extension
Page(base, ext) == [base |-> base, ext |-> ext]

\* the names content/pages may hold, in directory order
PageNames ==
    <<Page("about", ".md"), Page("index", ".md"), Page("notes", ".txt"),
      Page("sitemap.xml", ".md")>>

copyAssets(d) == copy(d, assetsDir, publicDir \o <<"assets">>)

\* buildPage: read the page and the template, write the page's HTML file
buildPage(d, pageFile) ==
    LET pagePath == contentDir \o <<"pages", pageFile.base \o pageFile.ext>>
        template == templatesDir \o <<"layout.html">>
    IN  IF \/ pagePath \notin DOMAIN d \/ d[pagePath] = "dir"
           \/ template \notin DOMAIN d \/ d[template] = "dir"
        THEN [ok |-> FALSE, disk |-> d]
        ELSE IF pageFile.base = "index" /\ pageFile.ext = ".md"
        THEN writeFile(d, publicDir \o <<"index.html">>, "html")
        ELSE LET pageDir == publicDir \o <<pageFile.base>>
                 made    == ensureDir(d, pageDir)
             IN  IF ~made.ok THEN made
                 ELSE writeFile(made.disk, pageDir \o <<"index.html">>, "html")

RECURSIVE buildEach(_, _, _)
buildEach(d, pages, i) ==
    IF i > Len(pages)
    THEN [ok |-> TRUE, disk |-> d]
    ELSE IF pages[i].ext # ".md"
    THEN buildEach(d, pages, i + 1)
    ELSE LET built == buildPage(d, pages[i])
         IN  IF built.ok THEN buildEach(built.disk, pages, i + 1) ELSE built

buildPages(d) ==
    LET pagesDir == contentDir \o <<"pages">>
    IN  IF pagesDir \notin DOMAIN d \/ d[pagesDir] # "dir"
        THEN [ok |-> FALSE, disk |-> d]
        ELSE buildEach(d, readdir(d, pagesDir, PageNames), 1)

generateSitemap(d) == writeFile(d, publicDir \o <<"sitemap.xml">>, "sitemap")

generateRobots_NothingWritten(d) == [ok |-> TRUE, disk |-> d]

generateRobots(d) == writeFile(d, publicDir \o <<"robots.txt">>, "robots")

generateCognitiveIndex(d) ==
    LET cognitiveDir == publicDir \o <<"cognitive">>
        made  == ensureDir(d, cognitiveDir)
        index == writeFile(made.disk, cognitiveDir \o <<"index.json">>, "cognitiveIndex")
    IN  IF ~made.ok THEN made
        ELSE IF ~index.ok THEN index
        ELSE writeFile(index.disk, cognitiveDir \o <<"api.html">>, "apiDoc")

\* the awaited calls of build(), in the order of the code
BuildOrder ==
    <<"remove", "ensureDir", "copyAssets", "buildPages", "generateSitemap",
      "generateRobots", "generateCognitiveIndex">>

RunStep(name, d) ==
    CASE name = "remove"                 -> [ok |-> TRUE, disk |-> remove(d, publicDir)]
      [] name = "ensureDir"              -> ensureDir(d, publicDir)
      [] name = "copyAssets"             -> copyAssets(d)
      [] name = "buildPages"             -> buildPages(d)
      [] name = "generateSitemap"        -> generateSitemap(d)
      [] name = "generateRobots"         -> generateRobots(d)
      [] name = "generateCognitiveIndex" -> generateCognitiveIndex(d)

\* what the repository directory holds before the first build
Files(names, data) == [p \in names |-> data]

SourceTree(pages, assets, template, gatewayJson) ==
    Files({<<>>, <<"content">>, <<"config">>, <<"templates">>}, "dir")
    @@ (IF pages.exists
        THEN Files({<<"content", "pages">>}, "dir")
             @@ Files({ <<"content", "pages", PageNames[i].base \o PageNames[i].ext>> :
                            i \in pages.files }, "content")
        ELSE <<>>)
    @@ (IF assets
        THEN Files({<<"assets">>, <<"assets", "css">>}, "dir")
             @@ Files({<<"assets", "css", "main.css">>}, "asset")
        ELSE <<>>)
    @@ (IF template THEN Files({<<"templates", "layout.html">>}, "template") ELSE <<>>)
    @@ (IF gatewayJson # "missing" THEN Files({configPath}, gatewayJson) ELSE <<>>)

BuilderInit ==
    /\ buildStatus = "idle"
    /\ buildPc = 1
    /\ buildLog = <<>>
    /\ rendered = <<>>

\* builder.build() is called: a run of the build script
BuildStart ==
    /\ buildStatus # "running"
    /\ buildStatus' = "running"
    /\ buildPc' = 1
    /\ buildLog' = <<>>
    /\ UNCHANGED <<rendered, disk, gwVars, browserVars>>

\* the next awaited call of build() runs to its end; after the last one the
\* build reports success; a call that throws ends the process (exit code 1)
BuildStep ==
    /\ buildStatus = "running"
    /\ LET r == RunStep(BuildOrder[buildPc], disk)
       IN  /\ disk' = r.disk
           /\ IF r.ok
              THEN /\ buildLog' = Append(buildLog, BuildOrder[buildPc])
                   /\ buildPc' = buildPc + 1
                   /\ buildStatus' = IF buildPc = Len(BuildOrder) THEN "succeeded"
                                                                  ELSE "running"
              ELSE /\ buildStatus' = "failed"
                   /\ UNCHANGED <<buildLog, buildPc>>
    /\ UNCHANGED <<rendered, gwVars, browserVars>>

BuilderNext == BuildStart \/ BuildStep

(***************************************************************************)
(* processTemplate.  A text is the sequence of its characters.             *)
(***************************************************************************)
\* this.siteConfig
siteConfig ==
    [title       |-> <<"R", "é", "g", "i", "m", "A", " ", "Z", "o", "n", "e">>,
     description |-> <<"A", "d", "v", "a", "n", "c", "e", "d", " ", "s", "k", "i", "n", "c", "a", "r", "e", " ", "s", "o", "l", "u", "t", "i", "o", "n", "s", " ", "p", "o", "w", "e", "r", "e", "d", " ", "b", "y", " ", "c", "o", "g", "n", "i", "t", "i", "v", "e", " ", "a", "r", "c", "h", "i", "t", "e", "c", "t", "u", "r", "e">>]

\* the keys of the variables buildPage passes, as Object.entries gives them
TemplateKeys ==
    <<<<"t", "i", "t", "l", "e">>,
      <<"d", "e", "s", "c", "r", "i", "p", "t", "i", "o", "n">>,
      <<"c", "o", "n", "t", "e", "n", "t">>,
      <<"p", "a", "t", "h">>,
      <<"s", "c", "h", "e", "m", "a", "T", "y", "p", "e">>>>

\* the text `{{${key}}}` the RegExp is made of: it has no character that is
\* special in a pattern, so it matches itself
regexSource(key) == <<"{", "{">> \o key \o <<"}", "}">>

MatchAt(str, i, pattern) ==
    /\ i + Len(pattern) - 1 <= Len(str)
    /\ SubSeq(str, i, i + Len(pattern) - 1) = pattern

\* the least number of a set of numbers that is not empty
Least(S) == CHOOSE i \in S : \A j \in S : i <= j

\* what String.prototype.replace puts in place of a match when the
\* replacement is a string: $$ is $, $& the match, $` the text before the
\* match, $' the text after it; the pattern has no group, so $1 stays
RECURSIVE GetSubstitution(_, _, _, _, _)
GetSubstitution(matched, before, after, replacement, from) ==
    LET special == { i \in from..(Len(replacement) - 1) :
                       /\ replacement[i] = "$"
                       /\ replacement[i + 1] \in {"$", "&", "`", "'"} }
    IN  IF special = {}
        THEN SubSeq(replacement, from, Len(replacement))
        ELSE LET i == Least(special)
             IN  SubSeq(replacement, from, i - 1)
                 \o (CASE replacement[i + 1] = "$" -> <<"$">>
                       [] replacement[i + 1] = "&" -> matched
                       [] replacement[i + 1] = "`" -> before
                       [] replacement[i + 1] = "'" -> after)
                 \o GetSubstitution(matched, before, after, replacement, i + 2)

\* str.replace(new RegExp(pattern, 'g'), replacement): every match, from left
\* to right, none overlapping; what is put in is not searched again
RECURSIVE replaceFrom(_, _, _, _)
replaceFrom(str, from, pattern, replacement) ==
    LET matches == { i \in from..Len(str) : MatchAt(str, i, pattern) }
    IN  IF matches = {}
        THEN SubSeq(str, from, Len(str))
        ELSE LET i == Least(matches)
             IN  SubSeq(str, from, i - 1)
                 \o GetSubstitution(pattern, SubSeq(str, 1, i - 1),
                                    SubSeq(str, i + Len(pattern), Len(str)),
                                    replacement, 1)
                 \o replaceFrom(str, i + Len(pattern), pattern, replacement)

replace(str, pattern, replacement) == replaceFrom(str, 1, pattern, replacement)

\* Object.entries(variables).forEach: one replace of the whole text per key,
\* in the order of the entries
RECURSIVE processEntries(_, _, _)
processEntries(html, variables, i) ==
    IF i > Len(variables)
    THEN html
    ELSE processEntries(replace(html, regexSource(variables[i].key), variables[i].value),
                        variables, i + 1)

processTemplate(template, variables) == processEntries(template, variables, 1)

\* a || b of two texts
OrDefault(a, b) == IF Len(a) > 0 THEN a ELSE b

\* the variables buildPage makes of a page's frontmatter and its HTML content
TemplateVariables(frontmatter, htmlContent) ==
    <<[key |-> TemplateKeys[1],
       value |-> OrDefault(frontmatter.title, siteConfig.title)],
      [key |-> TemplateKeys[2],
       value |-> OrDefault(frontmatter.description, siteConfig.description)],
      [key |-> TemplateKeys[3], value |-> htmlContent],
      [key |-> TemplateKeys[4], value |-> OrDefault(frontmatter.path, <<"/">>)],
      [key |-> TemplateKeys[5],
       value |-> OrDefault(frontmatter.schemaType, <<"W", "e", "b", "P", "a", "g", "e">>)]>>

\* the texts of templates/layout.html
Templates ==
    { <<"<", "h", "1", ">", "{", "{", "t", "i", "t", "l", "e", "}", "}", "<", "/", "h", "1", ">", "{", "{", "c", "o", "n", "t", "e", "n", "t", "}", "}">>,
      <<"{", "{", "t", "i", "t", "l", "e", "}", "}", "|", "{", "{", "d", "e", "s", "c", "r", "i", "p", "t", "i", "o", "n", "}", "}", "|", "{", "{", "c", "o", "n", "t", "e", "n", "t", "}", "}", "|", "{", "{", "p", "a", "t", "h", "}", "}", "|", "{", "{", "s", "c", "h", "e", "m", "a", "T", "y", "p", "e", "}", "}">>,
      <<"{", "{", "t", "i", "t", "l", "e", "}", "}", "{", "{", "t", "i", "t", "l", "e", "}", "}">>,
      <<"<", "p", ">", "s", "t", "a", "t", "i", "c", "<", "/", "p", ">">> }

\* the frontmatter of a page (an absent key is the empty text) and the HTML
\* of its body
Frontmatters ==
    [title       : { <<>>, <<"H", "i">>, <<"{", "{", "c", "o", "n", "t", "e", "n", "t", "}", "}">>, <<"$", "&">> },
     description : { <<>>, <<"{", "{", "t", "i", "t", "l", "e", "}", "}">>, <<"$", "$", "9">> },
     path        : { <<>>, <<"/", "a">> },
     schemaType  : { <<>> }]

HtmlContents ==
    { <<"<", "p", ">", "x", "<", "/", "p", ">">>,
      <<"<", "p", ">", "{", "{", "p", "a", "t", "h", "}", "}", "<", "/", "p", ">">>,
      <<"<", "p", ">", "{", "{", "t", "i", "t", "l", "e", "}", "}", "<", "/", "p", ">">>,
      <<"<", "p", ">", "$", "'", "<", "/", "p", ">">> }

\* buildPage, from the template being read to the HTML being made, for the
\* one page the model follows
RenderPage(template, frontmatter, htmlContent) ==
    /\ rendered = <<>>
    /\ LET variables == TemplateVariables(frontmatter, htmlContent)
       IN  rendered' = <<[template |-> template, variables |-> variables,
                          html |-> processTemplate(template, variables)]>>
    /\ UNCHANGED <<buildStatus, buildPc, buildLog>>
    /\ UNCHANGED <<disk, gwVars, browserVars>>

TemplateNext ==
    \E template \in Templates, frontmatter \in Frontmatters,
       htmlContent \in HtmlContents :
        RenderPage(template, frontmatter, htmlContent)

(***************************************************************************)
(* CognitiveLayer, the browser script.                                     *)
(***************************************************************************)
AlphaNumeric ==
    {"a", "b", "c", "d", "e", "f", "g", "h", "i", "j", "k", "l", "m", "n", "o", "p",
     "q", "r", "s", "t", "u", "v", "w", "x", "y", "z",
     "A", "B", "C", "D", "E", "F", "G", "H", "I", "J", "K", "L", "M", "N", "O", "P",
     "Q", "R", "S", "T", "U", "V", "W", "X", "Y", "Z",
     "0", "1", "2", "3", "4", "5", "6", "7", "8", "9"}

dermatologyKeywords ==
    <<"skin", "skincare", "dermatology", "anti-aging", "wrinkles",
      "acne", "pigmentation", "moisturizer", "serum", "treatment",
      "cleansing", "toning", "rejuvenation", "collagen", "elastin",
      "vitamin", "antioxidant", "peptides", "retinol", "hyaluronic",
      "sunscreen", "spf", "exfoliation", "inflammation", "repair">>

\* the pages of the site: the path (its characters), the keywords the text
\* of the body includes, and whether the page has a #cognitive-search box
Pages ==
    <<[url |-> <<"/">>, includes |-> {"skin", "serum"}, hasSearch |-> TRUE],
      [url |-> <<"/", "a", "-", "b">>, includes |-> {"acne"}, hasSearch |-> TRUE],
      [url |-> <<"/", "a", "_", "b">>, includes |-> {}, hasSearch |-> FALSE]>>

SearchTerms == {"acne", "Serum for skin"}

KnowledgeKey == "skintwin_knowledge"

\* the methods class CognitiveLayer defines
CognitiveLayerMethods ==
    {"init", "setupCognitiveIndicator", "extractPageKnowledge", "getMetaContent",
     "extractKeywords", "extractEntities", "extractRelationships", "sendToAtomSpace",
     "storeKnowledgeNode", "performReasoning", "minePatterns", "predictUserJourney",
     "generateNavigationPredictions", "query", "getKnowledgeGraph",
     "getNavigationPredictions"}

\* this.m(): calling a name the class does not define throws a TypeError, and
\* nothing after a throw runs
MethodCall(b, m, result) ==
    IF b.threw THEN b
    ELSE IF m \notin CognitiveLayerMethods THEN [b EXCEPT !.threw = TRUE]
    ELSE result

setupCognitiveIndicator(b) == [b EXCEPT !.document.indicators = @ + 1]

extractKeywords(b) ==
    SelectSeq(dermatologyKeywords, LAMBDA k : k \in Pages[b.document.page].includes)

\* JSON.parse(localStorage.getItem('skintwin_knowledge') || '[]')
getKnowledgeGraph(storage) ==
    IF KnowledgeKey \in DOMAIN storage THEN storage[KnowledgeKey] ELSE <<>>

storeKnowledgeNode_Deduplicates(b, atomData) ==
    LET stored == getKnowledgeGraph(b.localStorage)
        others == SelectSeq(stored, LAMBDA node : node.name # atomData.name)
    IN  [b EXCEPT !.localStorage = (KnowledgeKey :> Append(others, atomData)) @@ @]

storeKnowledgeNode(b, atomData) ==
    LET stored == getKnowledgeGraph(b.localStorage)
    IN  [b EXCEPT !.localStorage = (KnowledgeKey :> Append(stored, atomData)) @@ @]

\* the characters of a keyword of dermatologyKeywords
keywordText(keyword) ==
    CASE keyword = "skin" -> <<"s", "k", "i", "n">>
      [] keyword = "skincare" -> <<"s", "k", "i", "n", "c", "a", "r", "e">>
      [] keyword = "dermatology" -> <<"d", "e", "r", "m", "a", "t", "o", "l", "o", "g", "y">>
      [] keyword = "anti-aging" -> <<"a", "n", "t", "i", "-", "a", "g", "i", "n", "g">>
      [] keyword = "wrinkles" -> <<"w", "r", "i", "n", "k", "l", "e", "s">>
      [] keyword = "acne" -> <<"a", "c", "n", "e">>
      [] keyword = "pigmentation" -> <<"p", "i", "g", "m", "e", "n", "t", "a", "t", "i", "o", "n">>
      [] keyword = "moisturizer" -> <<"m", "o", "i", "s", "t", "u", "r", "i", "z", "e", "r">>
      [] keyword = "serum" -> <<"s", "e", "r", "u", "m">>
      [] keyword = "treatment" -> <<"t", "r", "e", "a", "t", "m", "e", "n", "t">>
      [] keyword = "cleansing" -> <<"c", "l", "e", "a", "n", "s", "i", "n", "g">>
      [] keyword = "toning" -> <<"t", "o", "n", "i", "n", "g">>
      [] keyword = "rejuvenation" -> <<"r", "e", "j", "u", "v", "e", "n", "a", "t", "i", "o", "n">>
      [] keyword = "collagen" -> <<"c", "o", "l", "l", "a", "g", "e", "n">>
      [] keyword = "elastin" -> <<"e", "l", "a", "s", "t", "i", "n">>
      [] keyword = "vitamin" -> <<"v", "i", "t", "a", "m", "i", "n">>
      [] keyword = "antioxidant" -> <<"a", "n", "t", "i", "o", "x", "i", "d", "a", "n", "t">>
      [] keyword = "peptides" -> <<"p", "e", "p", "t", "i", "d", "e", "s">>
      [] keyword = "retinol" -> <<"r", "e", "t", "i", "n", "o", "l">>
      [] keyword = "hyaluronic" -> <<"h", "y", "a", "l", "u", "r", "o", "n", "i", "c">>
      [] keyword = "sunscreen" -> <<"s", "u", "n", "s", "c", "r", "e", "e", "n">>
      [] keyword = "spf" -> <<"s", "p", "f">>
      [] keyword = "exfoliation" -> <<"e", "x", "f", "o", "l", "i", "a", "t", "i", "o", "n">>
      [] keyword = "inflammation" -> <<"i", "n", "f", "l", "a", "m", "m", "a", "t", "i", "o", "n">>
      [] keyword = "repair" -> <<"r", "e", "p", "a", "i", "r">>

UpperCase == <<"A", "B", "C", "D", "E", "F", "G", "H", "I", "J", "K", "L", "M", "N", "O", "P", "Q", "R", "S", "T", "U", "V", "W", "X", "Y", "Z">>
LowerCase == <<"a", "b", "c", "d", "e", "f", "g", "h", "i", "j", "k", "l", "m", "n", "o", "p", "q", "r", "s", "t", "u", "v", "w", "x", "y", "z">>

\* String.prototype.toLowerCase, on the letters A to Z
toLowerCase(str) ==
    [i \in DOMAIN str |->
        IF \E n \in DOMAIN UpperCase : UpperCase[n] = str[i]
        THEN LowerCase[CHOOSE n \in DOMAIN UpperCase : UpperCase[n] = str[i]]
        ELSE str[i]]

\* String.prototype.includes
includes(str, searchString) ==
    \E i \in 1..(Len(str) - Len(searchString) + 1) : MatchAt(str, i, searchString)

\* the values Math.random() gives, in thousandths
RandomValues == {0, 500, 999}

\* Math.random() * 0.8 + 0.2, in thousandths
Relevance(random) == (random * 8) \div 10 + 200

\* results.sort((a, b) => b.relevance - a.relevance): by relevance, the
\* greatest first, results of equal relevance in the order they had
sort_KeepsOrder(results) == results

RECURSIVE sort(_)
sort(results) ==
    IF results = <<>>
    THEN <<>>
    ELSE LET rest   == sort(SubSeq(results, 1, Len(results) - 1))
             x      == results[Len(results)]
             front  == SelectSeq(rest, LAMBDA r : r.relevance >= x.relevance)
             back   == SelectSeq(rest, LAMBDA r : r.relevance < x.relevance)
         IN  front \o <<x>> \o back

\* the stored nodes, by their place in the list, that have a keyword for which
\* query.toLowerCase().includes(keyword.toLowerCase())
matchingNodes(knowledge, query) ==
    SelectSeq([i \in DOMAIN knowledge |-> i],
              LAMBDA i : \E k \in DOMAIN knowledge[i].attributes.keywords :
                            includes(toLowerCase(query),
                                     toLowerCase(keywordText(
                                         knowledge[i].attributes.keywords[k]))))

\* performReasoning(query); random[j] is what Math.random() gives for the
\* j-th result pushed
performReasoning(storage, query, random) ==
    LET knowledge == getKnowledgeGraph(storage)
        matching  == matchingNodes(knowledge, query)
    IN  sort([j \in DOMAIN matching |->
                 [node |-> knowledge[matching[j]].name,
                  relevance |-> Relevance(random[j]),
                  attributes |-> knowledge[matching[j]].attributes]])

\* query(searchTerm)
query(storage, searchTerm, random) == performReasoning(storage, searchTerm, random)

\* what a caller of query() asks for
Queries ==
    { <<"a", "c", "n", "e">>, <<"S", "e", "r", "u", "m", " ", "f", "o", "r", " ", "A", "C", "N", "E">>, <<>>, <<"s", "k">> }

\* `Page_${data.url.replace(/[^a-zA-Z0-9]/g, '_')}`
AtomName(url) ==
    <<"P", "a", "g", "e", "_">>
    \o [i \in 1..Len(url) |-> IF url[i] \in AlphaNumeric THEN url[i] ELSE "_"]

sendToAtomSpace(b, data) ==
    storeKnowledgeNode(b, [type |-> "ConceptNode", name |-> AtomName(data.url),
                           attributes |-> [url |-> data.url, domain |-> data.domain,
                                           keywords |-> data.keywords]])

extractPageKnowledge(b) ==
    LET pageData == [url |-> b.layer.currentPage, keywords |-> extractKeywords(b),
                     domain |-> "dermatology"]
    IN  sendToAtomSpace(
            [b EXCEPT !.layer.knowledgeNodes = (b.layer.currentPage :> pageData) @@ @],
            pageData)

init(b) ==
    LET b1 == MethodCall(b, "setupCognitiveIndicator", setupCognitiveIndicator(b))
        b2 == MethodCall(b1, "extractPageKnowledge", extractPageKnowledge(b1))
        b3 == MethodCall(b2, "setupAtomSpaceConnection", b2)
    IN  IF b3.threw THEN b3 ELSE [b3 EXCEPT !.layer.initialized = TRUE]

\* new CognitiveLayer()
NewCognitiveLayer(b) ==
    LET this == [b EXCEPT !.layer = [initialized |-> FALSE, knowledgeNodes |-> <<>>,
                                     currentPage |-> Pages[b.document.page].url]]
    IN  MethodCall(this, "init", init(this))

NoWindow == [cognitiveLayer |-> <<>>, searchListener |-> FALSE, lastQuery |-> "",
             reasoned |-> <<>>]

BrowserInit ==
    /\ localStorage = <<>>
    /\ document = [page |-> 0, indicators |-> 0, ready |-> FALSE, searchValue |-> ""]
    /\ window = NoWindow

\* the browser loads a page of the site: a new document and a new window
Navigate(p) ==
    /\ Len(getKnowledgeGraph(localStorage)) < MaxLoads
    /\ document' = [page |-> p, indicators |-> 0, ready |-> FALSE, searchValue |-> ""]
    /\ window' = NoWindow
    /\ UNCHANGED <<localStorage, disk, gwVars, builderVars>>

\* the DOMContentLoaded listener of the script
DOMContentLoaded ==
    /\ document.page # 0
    /\ ~document.ready
    /\ LET b == NewCognitiveLayer([localStorage |-> localStorage, document |-> document,
                                   layer |-> <<>>, threw |-> FALSE])
       IN  /\ localStorage' = b.localStorage
           /\ document' = [b.document EXCEPT !.ready = TRUE]
           /\ window' = IF b.threw
                        THEN window
                        ELSE [window EXCEPT
                                !.cognitiveLayer = <<b.layer>>,
                                !.searchListener = Pages[document.page].hasSearch]
    /\ UNCHANGED <<disk, gwVars, builderVars>>

\* the user types into #cognitive-search: the input listener, when one was
\* added, calls window.cognitiveLayer.query(e.target.value)
SearchInput(term) ==
    /\ document.page # 0
    /\ document.ready
    /\ Pages[document.page].hasSearch
    /\ document.searchValue # term
    /\ document' = [document EXCEPT !.searchValue = term]
    /\ window' = IF window.searchListener
                 THEN [window EXCEPT !.lastQuery = term]
                 ELSE window
    /\ UNCHANGED <<localStorage, disk, gwVars, builderVars>>

\* a caller of the script's public API asks query(searchTerm) of what the
\* storage holds once the page's script has run; Math.random() gives any of
\* the values randoms for each result.  The model follows one query of a
\* page view.
Query(searchTerm, randoms) ==
    /\ document.page # 0
    /\ document.ready
    /\ window.reasoned = <<>>
    /\ \E random \in [DOMAIN matchingNodes(getKnowledgeGraph(localStorage), searchTerm)
                          -> randoms] :
          window' = [window EXCEPT !.reasoned =
                        <<[query |-> searchTerm,
                           knowledge |-> getKnowledgeGraph(localStorage),
                           results |-> query(localStorage, searchTerm, random)]>>]
    /\ UNCHANGED <<localStorage, document, disk, gwVars, builderVars>>

BrowserStep(pages, terms, queries, randoms) ==
    \/ \E p \in pages : Navigate(p)
    \/ DOMContentLoaded
    \/ \E term \in terms : SearchInput(term)
    \/ \E searchTerm \in queries : Query(searchTerm, randoms)

BrowserNext == BrowserStep(1..Len(Pages), SearchTerms, Queries, RandomValues)

\* the repository as checked out, with a whole gateway.json, with one that
\* lacks the key gateway, and without one
DefaultPages == [exists |-> TRUE, files |-> {1, 2, 3}]

ConfigFiles == {"json", "incomplete", "missing"}

Init ==
    /\ GatewayInit
    /\ BuilderInit
    /\ BrowserInit
    /\ disk \in { SourceTree(DefaultPages, TRUE, TRUE, j) : j \in ConfigFiles }

\* the three programs side by side, each on a few of its inputs; processTemplate
\* reads and writes nothing but its arguments and is followed in SpecTemplate
CoreRequests ==
    { Req("POST", OpenAIPath, ValidKey, Undefined, "object"),
      Req("GET", <<"metrics">>, Undefined, Undefined, "none"),
      Req("POST", ImagePath, Undefined, Undefined, "malformed") }

CoreCalls == { <<"handleImageAnalysis", "undefined">> }

Next ==
    \/ GatewayStep(CoreRequests, CoreCalls)
    \/ BuilderNext
    \/ BrowserStep({1}, {"acne"}, {<<"s", "k", "i", "n">>}, {500})

\* the gateway alone
SpecGateway == Init /\ [][GatewayNext]_vars

\* the routes of the ten placeholder handlers
PlaceholderRoutes ==
    LET routes == setupServiceRoutes \o setupAgentRoutes \o setupDataServiceRoutes
                      \o setupToolRoutes \o setupCognitiveIntegration
    IN  { routes[i] : i \in { j \in DOMAIN routes :
                                 routes[j].fn \in DOMAIN PlaceholderMessage } }

\* a request with a valid key to each of them, with and without a body, and
\* a request that changes requestStats.byService
PlaceholderRequests ==
    { Req(r.method, r.path, ValidKey, Undefined, b) :
        r \in PlaceholderRoutes, b \in {"none", "object"} }
    \cup { Req("POST", OpenAIPath, ValidKey, Undefined, "object") }

PlaceholderCalls == { <<h, "undefined">> : h \in DOMAIN PlaceholderMessage }

\* the gateway on the requests and calls that reach the placeholder handlers
SpecPlaceholders ==
    Init /\ [][GatewayStep(PlaceholderRequests, PlaceholderCalls)]_vars

\* the builder alone, on every content directory of the model
InitBuilder ==
    /\ GatewayInit
    /\ BuilderInit
    /\ BrowserInit
    /\ disk \in { SourceTree(pages, assets, template, "json") :
                    pages \in [exists : {TRUE}, files : SUBSET (1..Len(PageNames))]
                              \cup {[exists |-> FALSE, files |-> {}]},
                    assets \in BOOLEAN, template \in BOOLEAN }

SpecBuilder == InitBuilder /\ [][BuilderNext]_vars

\* processTemplate alone, on every template and page of the model
SpecTemplate == Init /\ [][TemplateNext]_vars

\* the browser script alone
SpecBrowser == Init /\ [][BrowserNext]_vars

Spec == Init /\ [][Next]_vars


(***************************************************************************)
(* Properties of the gateway.                                              *)
(***************************************************************************)
\* a path under /v1/, /agents/, /data/ or /tools/
UnderProtectedPrefix(path) ==
    Len(path) > 1 /\ path[1] \in {"v1", "agents", "data", "tools"}

\* the validity rule of an API key, for a key of any type
IsValidKey(k) ==
    k.t = "string" /\ startsWith(k.s, KeyPrefix) /\ Len(k.s) > MinKeyLen

\* C1: a route handler of a path under /v1/, /agents/, /data/ or /tools/ runs
\* only for a request whose API key authenticateRequest accepted: never for
\* a request without a key or with a key validateApiKey rejects.
C1_ProtectedHandlerNeedsAcceptedKey ==
    \A i \in DOMAIN last :
        (last[i].handler # "" /\ UnderProtectedPrefix(last[i].req.path))
            => /\ last[i].auth = "accepted"
               /\ Truthy(OrElse(last[i].req.hkey, last[i].req.qkey))
               /\ IsValidKey(OrElse(last[i].req.hkey, last[i].req.qkey))

C1_Witness ==
    /\ Len(last) = 1
    /\ last[1].handler = "handleImageAnalysis"
    /\ last[1].auth = "accepted"
    /\ requestStats.total = 2

\* C2 (as stated): validateApiKey accepts a key string if and only if the key
\* begins with 'regima_'.
C2_AcceptsIffPrefix ==
    \A i \in DOMAIN last :
        (last[i].auth \in {"accepted", "invalid"} /\ last[i].apiKey.t = "string")
            => (last[i].auth = "accepted" <=> startsWith(last[i].apiKey.s, KeyPrefix))

\* C2 (amended): validateApiKey accepts a key string if and only if the key
\* begins with 'regima_' and is longer than 20 characters.
C2_AcceptsIffPrefixAndLength ==
    \A i \in DOMAIN last :
        (last[i].auth \in {"accepted", "invalid"} /\ last[i].apiKey.t = "string")
            => (last[i].auth = "accepted"
                    <=> /\ startsWith(last[i].apiKey.s, KeyPrefix)
                        /\ Len(last[i].apiKey.s) > 20)

C2_Witness ==
    /\ Len(last) = 1
    /\ last[1].apiKey = BoundaryKey
    /\ last[1].auth = "invalid"
    /\ last[1].status = 403

\* C3: authenticateRequest has exactly one of three outcomes: without a key,
\* 401 and next is not called; with a key that is present but not valid, 403
\* and next is not called; with a valid key, req.user = {apiKey, role: 'user'}
\* and next is called exactly once without a response being sent.
C3_AuthHasThreeOutcomes ==
    \A i \in DOMAIN last :
        LET l   == last[i]
            key == OrElse(l.req.hkey, l.req.qkey)
        IN  l.auth # "not-run" =>
              /\ ~Truthy(key) => (l.authStatus = 401 /\ l.nextCalls = 0 /\ ~l.user.set)
              /\ (Truthy(key) /\ ~IsValidKey(key))
                    => (l.authStatus = 403 /\ l.nextCalls = 0 /\ ~l.user.set)
              /\ IsValidKey(key)
                    => /\ l.user = [set |-> TRUE, apiKey |-> key, role |-> "user"]
                       /\ l.nextCalls = 1
                       /\ l.authStatus = 0

\* the number requestStats.byService holds for a service: a missing key is 0
CountOf(byService, s) == IF s \in DOMAIN byService THEN byService[s] ELSE 0

\* C4: requestStats.byService[s], for s in {openai, skincare-consultant,
\* image-analysis}, is the number of requests whose handler of service s
\* reached its success response, and byService has no other key.
C4_ByServiceCountsSuccesses ==
    /\ DOMAIN requestStats.byService \subseteq Services
    /\ \A s \in Services : CountOf(requestStats.byService, s) = served[s]

C4_Witness ==
    /\ served["openai"] = 2
    /\ requestStats.byService["openai"] = 2
    /\ "image-analysis" \notin DOMAIN requestStats.byService

\* C5: GET /gateway/config is admin only: the configuration is returned only
\* to a request that has been authenticated as an admin.
C5_ConfigOnlyToAdmin ==
    \A i \in DOMAIN last :
        last[i].body = "config" => (last[i].user.set /\ last[i].user.role = "admin")

\* C9: requestStats.total is the number of HTTP requests the listening gateway
\* has received, each counted once whatever its outcome, and the total that
\* /metrics and /gateway/info report includes the request being answered.
C9_TotalCountsEveryRequest ==
    /\ requestStats.total = received
    /\ \A i \in DOMAIN last :
          last[i].snapshot # <<>> => last[i].snapshot[1].total = received

\* C10: requestStats.errors is the number of finished responses whose status
\* is at least 400, errors <= total, and the errorRate of /metrics is 0 when
\* total is 0 and otherwise between 0 and 1.
C10_ErrorsCountsFailedResponses ==
    LET rate == getServiceMetrics(requestStats).errorRate
    IN  /\ requestStats.errors = finishedErr
        /\ requestStats.errors <= requestStats.total
        /\ requestStats.total = 0 => rate[1] = 0
        /\ 0 <= rate[1] /\ rate[1] <= rate[2]

\* the handlers of openai, skincare-consultant and image-analysis
ServiceHandlers == {"handleOpenAIChat", "handleSkincareConsultant", "handleImageAnalysis"}

\* the handler methods a step ran with a req.body that is undefined, so that
\* reading a property of it throws inside the handler's try
ThrewIn ==
    { h \in ServiceHandlers :
        /\ called' # called
        /\ called'[1].fn = h
        /\ called'[1].reqBody = "undefined" }

\* C12: when the handler of openai, skincare-consultant or image-analysis
\* throws while it builds its response, the answer is status 500 with the
\* body {error: message}, the counter of the service is not incremented, and
\* the gateway goes on serving: it neither exits nor loses a layer.  A
\* handler that Express runs never answers anything but its success response.
C12_HandlerThrowAnswers500 ==
    [][ /\ \A h \in ThrewIn :
              /\ called'[1].status = 500
              /\ called'[1].body = "error"
              /\ requestStats'.byService = requestStats.byService
              /\ served' = served
              /\ phase' = phase /\ listening' = listening /\ stack' = stack
        /\ (received' # received /\ last'[1].handler \in ServiceHandlers)
              => (last'[1].status = 200 /\ last'[1].body \in DOMAIN ServiceOfBody)
      ]_vars

\* the handler threw for one caller and answered a later HTTP request
C12_Witness ==
    /\ Calls = 1
    /\ called[1].fn = "handleOpenAIChat"
    /\ called[1].status = 500
    /\ called[1].at = 0
    /\ received = 1
    /\ Len(last) = 1
    /\ last[1].handler = "handleOpenAIChat"
    /\ last[1].status = 200
    /\ requestStats.byService = ("openai" :> 1)

\* the handler a step ran: for an HTTP request, for a call, or none
HandledBy ==
    IF received' # received THEN last'[1].handler
    ELSE IF called' # called THEN called'[1].fn
    ELSE ""

\* C13: each of the ten placeholder handlers answers any two requests with
\* the same status and the same constant message, whatever the body of the
\* request and whatever requestStats holds, and leaves requestStats.byService
\* unchanged.
C13_PlaceholdersAreConstant ==
    [][ (HandledBy \in DOMAIN PlaceholderMessage) =>
            /\ requestStats'.byService = requestStats.byService
            /\ \A a, b \in answers'[HandledBy] :
                  a.status = b.status /\ a.message = b.message
            /\ \A a \in answers'[HandledBy] :
                  a.status = 200 /\ a.message = PlaceholderMessage[HandledBy]
      ]_vars

\* one placeholder answered a call without body and then an HTTP request with
\* a body, after requestStats had changed
C13_Witness ==
    /\ Cardinality(DOMAIN PlaceholderMessage) = 10
    /\ \E a, b \in answers["handleKnowledgeQuery"] :
          /\ a.reqBody = "undefined" /\ b.reqBody = "object"
          /\ a.total = 0 /\ b.total = 1
          /\ a.message = b.message
    /\ Len(last) = 1
    /\ last[1].handler = "handleKnowledgeQuery"

\* the layers of the stack in front of layer i
InFront(i) == { stack[j] : j \in 1..(i - 1) }

\* C11: when reading the gateway configuration fails, no middleware and no
\* route is registered and the process exits with code 1, never initialized;
\* when it succeeds, every middleware is registered before any route, so a
\* route has the statistics middleware and the authentication middleware of
\* all four prefixes in front of it, and a handler that runs for a request
\* runs after them.
C11_MiddlewareBeforeRoutes ==
    /\ ~readJson(disk, configPath)
          => /\ stack = <<>>
             /\ phase \in {"constructed", "exit(1)"}
    /\ phase = "exit(1)" => (stack = <<>> /\ ~listening)
    /\ \A i \in DOMAIN stack :
          stack[i].kind = "route" =>
             /\ \A j \in DOMAIN stack : stack[j].kind = "use" => j < i
             /\ \E l \in InFront(i) : l.fn = "requestLogger" /\ l.path = <<>>
             /\ \A prefix \in {"v1", "agents", "data", "tools"} :
                   \E l \in InFront(i) :
                      l.fn = "authenticateRequest" /\ l.path = <<prefix>>
    /\ \A i \in DOMAIN last :
          last[i].handler # "" =>
             /\ last[i].listener
             /\ UnderProtectedPrefix(last[i].req.path) => last[i].auth # "not-run"

C11_Witness ==
    /\ phase = "initialized"
    /\ Len(last) = 1
    /\ last[1].handler = "handleSkincareConsultant"
    /\ last[1].listener
    /\ last[1].auth = "accepted"


(***************************************************************************)
(* Properties of the builder.                                              *)
(***************************************************************************)
\* the markdown pages of content/pages
MarkdownPages ==
    { i \in 1..Len(PageNames) :
        /\ PageNames[i].ext = ".md"
        /\ <<"content", "pages", PageNames[i].base \o PageNames[i].ext>> \in DOMAIN disk }

Holds(path, data) == path \in DOMAIN disk /\ disk[path] = data

\* C6: build runs its steps in the fixed order remove, recreate, copy assets,
\* build pages, sitemap, robots.txt, cognitive index, each after the previous
\* one has finished; after a build that reports success the output directory
\* holds the copied assets, one HTML file per markdown page, sitemap.xml,
\* robots.txt, cognitive/index.json and cognitive/api.html.
C6_BuildOrderAndOutputs ==
    /\ IsPrefix(buildLog, <<"remove", "ensureDir", "copyAssets", "buildPages",
                            "generateSitemap", "generateRobots",
                            "generateCognitiveIndex">>)
    /\ buildStatus = "running" => buildPc = Len(buildLog) + 1
    /\ buildStatus = "succeeded" =>
         /\ Len(buildLog) = 7
         /\ \A q \in DOMAIN disk :
               IsPrefix(<<"assets">>, q) => Holds(<<"public">> \o q, disk[q])
         /\ Cardinality({ q \in DOMAIN disk :
                            IsPrefix(<<"public">>, q) /\ disk[q] = "html" })
               = Cardinality(MarkdownPages)
         /\ Holds(<<"public", "sitemap.xml">>, "sitemap")
         /\ Holds(<<"public", "robots.txt">>, "robots")
         /\ Holds(<<"public", "cognitive", "index.json">>, "cognitiveIndex")
         /\ Holds(<<"public", "cognitive", "api.html">>, "apiDoc")

C6_Witness ==
    /\ buildStatus = "succeeded"
    /\ Cardinality(MarkdownPages) = 2
    /\ Holds(<<"public", "index.html">>, "html")
    /\ Holds(<<"public", "about", "index.html">>, "html")
    /\ Holds(<<"public", "assets", "css", "main.css">>, "asset")

\* the text with every {{k}} of a key k replaced by the value of k, each value
\* put in as it is
RECURSIVE SubstituteFrom(_, _, _)
SubstituteFrom(template, from, variables) ==
    LET KeysAt(i) == { k \in DOMAIN variables :
                         MatchAt(template, i, regexSource(variables[k].key)) }
        matches   == { i \in from..Len(template) : KeysAt(i) # {} }
    IN  IF matches = {}
        THEN SubSeq(template, from, Len(template))
        ELSE LET i == Least(matches)
                 k == CHOOSE h \in KeysAt(i) : TRUE
             IN  SubSeq(template, from, i - 1)
                 \o variables[k].value
                 \o SubstituteFrom(template, i + Len(regexSource(variables[k].key)),
                                   variables)

\* the orders the keys can be given in
KeyOrders ==
    { f \in [DOMAIN TemplateKeys -> DOMAIN TemplateKeys] :
        \A i, j \in DOMAIN TemplateKeys : f[i] = f[j] => i = j }

\* C14: processTemplate returns the template with every {{k}} replaced by
\* the value of k, for each key k of the variables, the values put in
\* verbatim: placeholder-like text inside a value is not expanded, and the
\* result does not depend on the order of the keys.
C14_ProcessTemplateIsVerbatim ==
    \A i \in DOMAIN rendered :
        /\ rendered[i].html
              = SubstituteFrom(rendered[i].template, 1, rendered[i].variables)
        /\ \A f \in KeyOrders :
              processTemplate(rendered[i].template,
                              [k \in DOMAIN TemplateKeys |-> rendered[i].variables[f[k]]])
                 = rendered[i].html

(***************************************************************************)
(* Properties of the browser script.                                       *)
(***************************************************************************)
\* C7: once the DOMContentLoaded listener has run, the indicator is added,
\* the page knowledge is stored, initialized is true, window.cognitiveLayer
\* is assigned and, on a page with a #cognitive-search element, input events
\* are answered by query().
C7_InitRunsToCompletion ==
    document.ready =>
        /\ document.indicators = 1
        /\ Len(getKnowledgeGraph(localStorage)) > 0
        /\ Len(window.cognitiveLayer) = 1
        /\ window.cognitiveLayer[1].initialized
        /\ Pages[document.page].hasSearch => window.searchListener
        /\ document.searchValue # "" => window.lastQuery = document.searchValue

\* C15: the list stored under 'skintwin_knowledge' holds one atom per page
\* load, in load order: a load (a CognitiveLayer construction) appends one
\* ConceptNode, named after the page, to the end and keeps every earlier
\* entry as it was, also when an entry of that name is already there; no
\* other step changes the list.
C15_OneAtomPerLoad ==
    [][ LET before == getKnowledgeGraph(localStorage)
            after  == getKnowledgeGraph(localStorage')
        IN  IF document'.ready /\ ~document.ready
            THEN /\ Len(after) = Len(before) + 1
                 /\ SubSeq(after, 1, Len(before)) = before
                 /\ after[Len(after)].type = "ConceptNode"
                 /\ after[Len(after)].name = AtomName(Pages[document.page].url)
                 /\ after[Len(after)].attributes.url = Pages[document.page].url
            ELSE after = before
      ]_vars

\* the same page loaded twice, then another page
C15_Witness ==
    LET stored == getKnowledgeGraph(localStorage)
    IN  /\ Len(stored) = 3
        /\ stored[1] = stored[2]
        /\ stored[1].attributes.url = Pages[1].url
        /\ stored[3].attributes.url = Pages[2].url
        /\ stored[3].name # stored[1].name
        /\ document.ready

\* the stored nodes with a keyword that occurs in the query, letter case aside
Matching(knowledge, searchTerm) ==
    { i \in DOMAIN knowledge :
        \E k \in DOMAIN knowledge[i].attributes.keywords :
            includes(toLowerCase(searchTerm),
                     toLowerCase(keywordText(knowledge[i].attributes.keywords[k]))) }

\* C16: performReasoning(query) returns exactly one result for each stored
\* node that has a keyword occurring, case-insensitively, as a substring of
\* the query, and none for any other node; the results are in the order of
\* non-increasing relevance; the stored knowledge is left as it was.
C16_ReasoningResults ==
    \A n \in DOMAIN window.reasoned :
        LET r        == window.reasoned[n]
            matching == Matching(r.knowledge, r.query)
        IN  /\ \E f \in [DOMAIN r.results -> matching] :
                  /\ \A i, j \in DOMAIN r.results : f[i] = f[j] => i = j
                  /\ \A m \in matching : \E i \in DOMAIN r.results : f[i] = m
                  /\ \A i \in DOMAIN r.results :
                        /\ r.results[i].node = r.knowledge[f[i]].name
                        /\ r.results[i].attributes = r.knowledge[f[i]].attributes
            /\ \A i \in 1..(Len(r.results) - 1) :
                  r.results[i].relevance >= r.results[i + 1].relevance
            /\ getKnowledgeGraph(localStorage) = r.knowledge

\* of three stored nodes the query matches the first and the last, in
\* different letter case, and the last comes out first
C16_Witness ==
    /\ Len(window.reasoned) = 1
    /\ LET r == window.reasoned[1]
       IN  /\ r.query = <<"S", "e", "r", "u", "m", " ", "f", "o", "r", " ",
                          "A", "C", "N", "E">>
           /\ Len(r.knowledge) = 3
           /\ Matching(r.knowledge, r.query) = {1, 3}
           /\ Len(r.results) = 2
           /\ r.results[1].attributes.url = Pages[2].url
           /\ r.results[2].attributes.url = Pages[1].url
           /\ r.knowledge[1].attributes.url = Pages[1].url
           /\ r.results[1].relevance > r.results[2].relevance

(***************************************************************************)
(* Properties of the three programs side by side.                          *)
(***************************************************************************)
\* the files the gateway reads
GatewayFiles(d) == [p \in { q \in DOMAIN d : IsPrefix(<<"config">>, q) } |-> d[p]]

\* C8: no step of SiteBuilder.build or of CognitiveLayer changes the state of
\* the gateway (config, requestStats, what it answers) or the file it reads,
\* and no step of the gateway changes the files of the repository directory,
\* the output directory among them, or the browser's local storage.
C8_GatewayIndependent ==
    [][ /\ (builderVars' # builderVars \/ browserVars' # browserVars)
            => /\ gwVars' = gwVars
               /\ GatewayFiles(disk') = GatewayFiles(disk)
        /\ gwVars' # gwVars
            => /\ disk' = disk
               /\ localStorage' = localStorage
               /\ builderVars' = builderVars ]_vars

C8_Witness ==
    /\ requestStats.total = 2
    /\ buildStatus = "succeeded"
    /\ Len(getKnowledgeGraph(localStorage)) = 2
    /\ document.ready

=============================================================================
